---- MODULE Spec2Model ----
(***************************************************************************)
(* Model of the Fractal Global Credits API client (api-rs).                *)
(*                                                                         *)
(* One public operation of the client is one call: the local check of the  *)
(* access token (Call), then the request envelope send_request, whose      *)
(* transport sends are the steps FirstSend and RetrySend, then the         *)
(* operation's own handling of the response.  Two clients are modelled:    *)
(* Client (src/v1) and the older ClientV1 (src/lib.rs).                    *)
(***************************************************************************)
EXTENDS Integers, Sequences, FiniteSets, TLC

VARIABLES now, pc, call, request, wire, sends, log, flip, resp, result

vars == <<now, pc, call, request, wire, sends, log, flip, resp, result>>

----------------------------------------------------------------------------
(* Bounds of the model. *)

MaxTime == 1
MaxUserId == 1
MaxScopes == 2
MaxSends == 3

(* Program constants. *)

SECRET_LEN == 20

----------------------------------------------------------------------------
(* Scopes and access tokens. *)

Admin == [tag |-> "Admin", id |-> 0]
Public == [tag |-> "Public", id |-> 0]
Developer == [tag |-> "Developer", id |-> 0]
User(id) == [tag |-> "User", id |-> id]

UserIds == 0..MaxUserId
Times == 0..MaxTime

\* The expiration instants of tokens: a token may be built already expired.
Expirations == (0 - 1)..MaxTime

Scope == {Admin, Public, Developer} \cup {User(i) : i \in UserIds}

ScopeLists == UNION {[1..k -> Scope] : k \in 0..MaxScopes}

AccessToken == [app_id : {"app"}, scopes : ScopeLists,
                access_token : {"bearer"}, expiration : Expirations]

NoToken == [app_id |-> "", scopes |-> <<>>, access_token |-> "", expiration |-> 0]

\* AccessToken::from_data(app_id, scopes, access_token, expiration)
from_data(app_id, scopes, access_token, expiration) ==
    [app_id |-> app_id, scopes |-> scopes, access_token |-> access_token,
     expiration |-> expiration]

\* expiration < UTC::now()
HasExpiredNonStrict(token, t) == token.expiration <= t

\* self.expiration != UTC::now()
HasExpiredNotEqual(token, t) == token.expiration # t

has_expired(token, t) == token.expiration < t

\* any(|s| s != &Scope::X)
AnyScopeOtherThan(token, s) == \E i \in 1..Len(token.scopes) : token.scopes[i] # s

\* access_token.scopes().any(|s| s == &Scope::X)
AnyScope(token, s) == \E i \in 1..Len(token.scopes) : token.scopes[i] = s

\* access_token.scopes().any(|s| match s { &Scope::User(_) => true, _ => false })
AnyUser(token) == \E i \in 1..Len(token.scopes) : token.scopes[i].tag = "User"

\* &Scope::User(_) => true, &Scope::Admin => true
AdminOrAnyUser(token, user_id) ==
    \E i \in 1..Len(token.scopes) :
        \/ token.scopes[i].tag = "User"
        \/ token.scopes[i] = Admin

\* access_token.scopes().any(|s| match s { &Scope::User(u_id) => u_id == user_id,
\*                                         &Scope::Admin => true, _ => false })
AdminOrUser(token, user_id) ==
    \E i \in 1..Len(token.scopes) :
        \/ token.scopes[i] = User(user_id)
        \/ token.scopes[i] = Admin

(* Helpers of AccessToken that the operations of friends.rs and            *)
(* transaction.rs call but whose bodies are not among the sources.         *)

is_admin(token) == \E i \in 1..Len(token.scopes) : token.scopes[i] = Admin

\* is_user accepting any User scope
IsUserAnyId(token, id) == \E i \in 1..Len(token.scopes) : token.scopes[i].tag = "User"

is_user(token, id) == \E i \in 1..Len(token.scopes) : token.scopes[i] = User(id)

UserPositions(token) == {i \in 1..Len(token.scopes) : token.scopes[i].tag = "User"}

\* get_user_id returning the last User scope
GetUserIdLast(token) ==
    IF \A i \in 1..Len(token.scopes) : token.scopes[i].tag # "User"
    THEN [some |-> FALSE, id |-> 0]
    ELSE LET last == CHOOSE i \in 1..Len(token.scopes) :
                         /\ token.scopes[i].tag = "User"
                         /\ \A j \in (i + 1)..Len(token.scopes) :
                                token.scopes[j].tag # "User"
         IN [some |-> TRUE, id |-> token.scopes[last].id]

\* Option<u64>: [some |-> TRUE, id |-> n] or [some |-> FALSE, id |-> 0]
get_user_id(token) ==
    IF UserPositions(token) = {}
    THEN [some |-> FALSE, id |-> 0]
    ELSE LET first == CHOOSE i \in UserPositions(token) :
                          \A j \in UserPositions(token) : i <= j
         IN [some |-> TRUE, id |-> token.scopes[first].id]

----------------------------------------------------------------------------
(* The client secret and its base64 decoding (secret.from_base64()).       *)

MaxSecretChars == 28

RECURSIVE Rep(_, _)
Rep(c, n) == IF n = 0 THEN <<>> ELSE <<c>> \o Rep(c, n - 1)

\* Characters: "A" stands for a character of the base64 alphabet, "=" is the
\* padding, "nl" a line break and "!" a byte outside the alphabet.
SecretTails == {<<>>, <<"=">>, <<"=", "=">>, <<"!">>, <<"=", "A">>, <<"nl">>}

Secrets == {Rep("A", n) \o t : n \in 25..MaxSecretChars, t \in SecretTails}

\* The bytes after the first "=": only padding and line breaks may follow.
RECURSIVE Base64Rest(_, _)
Base64Rest(s, i) ==
    IF i > Len(s) THEN TRUE
    ELSE IF s[i] \in {"=", "nl"} THEN Base64Rest(s, i + 1)
    ELSE FALSE

\* The decoder consumes the characters in groups of four, three bytes a
\* group; modulus characters are left over at the end.
RECURSIVE Base64Scan(_, _, _, _)
Base64Scan(s, i, modulus, bytes) ==
    IF i > Len(s) \/ s[i] = "="
    THEN IF i <= Len(s) /\ ~Base64Rest(s, i + 1)
         THEN [ok |-> FALSE, len |-> 0]
         ELSE CASE modulus = 0 -> [ok |-> TRUE, len |-> bytes]
                [] modulus = 2 -> [ok |-> TRUE, len |-> bytes + 1]
                [] modulus = 3 -> [ok |-> TRUE, len |-> bytes + 2]
                [] OTHER -> [ok |-> FALSE, len |-> 0]
    ELSE IF s[i] = "nl" THEN Base64Scan(s, i + 1, modulus, bytes)
    ELSE IF s[i] = "A"
         THEN IF modulus = 3
              THEN Base64Scan(s, i + 1, 0, bytes + 3)
              ELSE Base64Scan(s, i + 1, modulus + 1, bytes)
    ELSE [ok |-> FALSE, len |-> 0]

from_base64(s) == Base64Scan(s, 1, 0, 0)

SecretAcceptedAtLeast(secret) ==
    LET b == from_base64(secret) IN b.ok /\ b.len >= SECRET_LEN

\* match secret.from_base64() { Ok(b) => b.len() == SECRET_LEN, Err(_) => false }
SecretAccepted(secret) ==
    LET b == from_base64(secret) IN b.ok /\ b.len = SECRET_LEN

----------------------------------------------------------------------------
(* The operations of Client (src/v1) and of ClientV1 (src/lib.rs).         *)

OAuthOps == {"token", "create_client"}

PublicOps == {"register", "login", "resend_email_confirmation", "confirm_email",
              "start_reset_password", "reset_password"}

SetterOps == {"set_username", "set_phone", "set_birthday", "set_name",
              "set_email", "set_image", "set_address"}

UserOps == {"get_user", "get_me", "get_all_users", "delete_user",
            "get_authenticator_qrcode", "authenticate", "set_password"} \cup SetterOps

FriendsOps == {"send_friend_request", "confirm_friend_request", "get_friend_requests",
               "get_friends", "reject_friend_request", "unfriend"}

TransactionOps == {"get_transaction", "new_transaction", "get_all_transactions",
                   "authenticate_transaction", "get_user_id_from_wallet_address"}

ClientOps == OAuthOps \cup PublicOps \cup UserOps \cup FriendsOps \cup TransactionOps

ClientV1Ops == {"token", "login", "create_client", "generate_transaction",
                "delete_user"}

Clients == {"Client", "ClientV1"}

OpsOf(client) == IF client = "Client" THEN ClientOps ELSE ClientV1Ops

\* The operations that take a user_id argument naming the target user.
TargetOps == {"get_user", "delete_user", "get_authenticator_qrcode", "authenticate",
              "get_friend_requests", "get_friends"} \cup SetterOps

\* The operations that take the id of another user as an argument: user in
\* send_friend_request and confirm_friend_request, receiver_id in
\* new_transaction and generate_transaction.
UserArgOps == TargetOps \cup {"send_friend_request", "confirm_friend_request",
                              "new_transaction", "generate_transaction"}

\* The application ids a caller passes to token.
AppIds == {"app", "other"}

\* The scope condition of each operation's local check, file by file.

\* src/v1/oauth.rs: create_client
OAuthScopeCheck(op, token) == AnyScope(token, Admin)

\* src/v1/public.rs: register, login, resend_email_confirmation, confirm_email,
\* start_reset_password, reset_password
PublicScopeCheck(op, token) ==
    IF op = "resend_email_confirmation"
    THEN AnyUser(token)
    ELSE AnyScope(token, Public)

\* src/v1/user.rs
UserScopeCheck(op, token, user_id) ==
    CASE op \in {"get_user"} \cup SetterOps -> AdminOrUser(token, user_id)
      [] op \in {"get_me", "get_authenticator_qrcode", "authenticate",
                 "set_password"} -> AnyUser(token)
      [] op \in {"get_all_users", "delete_user"} -> AnyScope(token, Admin)
      [] OTHER -> FALSE

\* src/v1/friends.rs
FriendsScopeCheck(op, token, user_id) ==
    CASE op \in {"send_friend_request", "confirm_friend_request",
                 "reject_friend_request", "unfriend"} -> get_user_id(token).some
      [] op \in {"get_friend_requests", "get_friends"} ->
            is_admin(token) \/ is_user(token, user_id)
      [] OTHER -> FALSE

\* src/v1/transaction.rs
TransactionScopeCheck(op, token) ==
    CASE op = "get_transaction" -> get_user_id(token).some \/ is_admin(token)
      [] op \in {"new_transaction", "authenticate_transaction",
                 "get_user_id_from_wallet_address"} -> get_user_id(token).some
      [] op = "get_all_transactions" -> is_admin(token)
      [] OTHER -> FALSE

\* src/lib.rs: login, create_client, generate_transaction, delete_user
ClientV1ScopeCheck(op, token) ==
    CASE op = "generate_transaction" -> AnyUser(token)
      [] op = "login" -> AnyScope(token, Public)
      [] OTHER -> AnyScope(token, Admin)

ScopeCheck(client, op, token, user_id) ==
    IF client = "ClientV1" THEN ClientV1ScopeCheck(op, token)
    ELSE CASE op \in OAuthOps -> OAuthScopeCheck(op, token)
           [] op \in PublicOps -> PublicScopeCheck(op, token)
           [] op \in UserOps -> UserScopeCheck(op, token, user_id)
           [] op \in FriendsOps -> FriendsScopeCheck(op, token, user_id)
           [] op \in TransactionOps -> TransactionScopeCheck(op, token)
           [] OTHER -> FALSE

\* if <scope condition> && !access_token.has_expired() { ... } else { Err(..) }
LocalCheckOr(client, op, token, user_id, t) ==
    ScopeCheck(client, op, token, user_id) \/ ~has_expired(token, t)

LocalCheckNoExpiry(client, op, token, user_id, t) ==
    ScopeCheck(client, op, token, user_id)

LocalCheck(client, op, token, user_id, t) ==
    ScopeCheck(client, op, token, user_id) /\ ~has_expired(token, t)

----------------------------------------------------------------------------
(* Responses of the server and their decoding.                             *)

Statuses == {200, 202, 400, 401, 403, 404, 500}

\* A message is a sequence of text fragments; the server's messages are
\* given character by character.
Messages == {<<"n", "o">>, <<"7">>}

Digits == {"0", "1", "2", "3", "4", "5", "6", "7", "8", "9"}

\* A response body: whether it can be read and parsed, the DTO its JSON has the
\* fields of, and the fields the operations look at.  The scopes field of an
\* AccessTokenDTO is a string: scopes_text is its characters, scopes_valid and
\* scopes are what json::decode::<Vec<Scope>> makes of it.
Body(syntax, shape, message, convertible, token_type, scopes_text, scopes_valid, scopes, banned) ==
    [syntax |-> syntax, shape |-> shape, message |-> message,
     convertible |-> convertible, token_type |-> token_type,
     scopes_text |-> scopes_text, scopes_valid |-> scopes_valid,
     scopes |-> scopes, banned |-> banned]

\* Option<DateTime<UTC>>: [some |-> TRUE, at |-> t] or [some |-> FALSE, at |-> 0]
NoDate == [some |-> FALSE, at |-> 0]

SomeDate(t) == [some |-> TRUE, at |-> t]

PlainBody(syntax, shape, convertible) ==
    Body(syntax, shape, <<>>, convertible, "", <<>>, FALSE, <<>>, NoDate)

\* The UserDTO of a user banned until t.
UserBodies ==
    {Body("json", "UserDTO", <<>>, TRUE, "", <<>>, FALSE, <<>>, SomeDate(t)) :
        t \in Times}

CommonBodies ==
    {PlainBody("garbage", "", FALSE), PlainBody("ioerror", "", FALSE),
     PlainBody("json", "Other", FALSE)}
    \cup {Body("json", "ResponseDTO", m, TRUE, "", <<>>, FALSE, <<>>, NoDate) :
             m \in Messages}

\* The texts of a scopes field, character by character.  "{User0}" stands for
\* the JSON object of Scope::User(0), which holds no "User:" and no comma
\* outside its brackets that from_str would accept a piece of.
TextAdmin == <<"A", "d", "m", "i", "n">>
TextPublic == <<"P", "u", "b", "l", "i", "c">>
TextDeveloper == <<"D", "e", "v", "e", "l", "o", "p", "e", "r">>
TextUserColon == <<"U", "s", "e", "r", ":">>

\* [text, valid, scopes]: the text, and its decoding as a JSON array of scopes.
ScopesFields ==
    {[text |-> <<"[", "{User0}", "]">>, valid |-> TRUE, scopes |-> <<User(0)>>],
     [text |-> <<"[", "]">>, valid |-> TRUE, scopes |-> <<>>],
     [text |-> <<>>, valid |-> FALSE, scopes |-> <<>>],
     [text |-> TextAdmin, valid |-> FALSE, scopes |-> <<>>],
     [text |-> TextPublic \o <<",">> \o TextDeveloper, valid |-> FALSE,
      scopes |-> <<>>],
     [text |-> TextAdmin \o <<",">>, valid |-> FALSE, scopes |-> <<>>],
     [text |-> TextUserColon \o <<"1">>, valid |-> FALSE, scopes |-> <<>>]}

AccessTokenBodies ==
    {Body("json", "AccessTokenDTO", <<>>, TRUE, "Bearer", f.text, f.valid, f.scopes,
          NoDate) : f \in ScopesFields}
    \cup {Body("json", "AccessTokenDTO", <<>>, TRUE, "Mac", <<"[", "{User0}", "]">>,
                TRUE, <<User(0)>>, NoDate)}

\* The DTO each operation decodes from a 200 response ("" when it reads none).
ExpectedShape(op) ==
    CASE op \in {"token", "login"} -> "AccessTokenDTO"
      [] op = "create_client" -> "ClientInfoDTO"
      [] op \in {"get_user", "get_me"} -> "UserDTO"
      [] op = "get_all_users" -> "Vec<UserDTO>"
      [] op = "get_friend_requests" -> "Vec<PendingFriendRequestDTO>"
      [] op = "get_friends" -> "Vec<ProfileDTO>"
      [] op = "get_transaction" -> "TransactionDTO"
      [] op = "new_transaction" -> "PendingTransactionDTO"
      [] op = "get_all_transactions" -> "Vec<TransactionDTO>"
      [] op \in {"send_friend_request", "confirm_friend_request",
                 "reject_friend_request", "get_authenticator_qrcode",
                 "get_user_id_from_wallet_address"} -> "ResponseDTO"
      [] OTHER -> ""

\* The bodies the server is taken to answer an operation with.
BodiesFor(op) ==
    CommonBodies \cup
    (CASE ExpectedShape(op) = "AccessTokenDTO" -> AccessTokenBodies
       [] ExpectedShape(op) = "UserDTO" ->
            UserBodies \cup {PlainBody("json", "UserDTO", c) : c \in BOOLEAN}
       [] ExpectedShape(op) \in {"", "ResponseDTO"} -> {}
       [] OTHER -> {PlainBody("json", ExpectedShape(op), c) : c \in BOOLEAN})

NoResponse == [received |-> FALSE, status |-> 0, body |-> PlainBody("", "", FALSE)]

Response(status, body) == [received |-> TRUE, status |-> status, body |-> body]

\* Result<T>: kind "Ok" or the variant of Error; "Panic" is an unwrap() that
\* fails; "Response" is the Ok(Response) that send_request hands to its caller.
\* The variants carry the names of src/error.rs: send_request writes
\* Error::Client and Error::Server for ClientError and ServerError.
\* The value of an Ok carries the token of token and login and the user of
\* get_user and get_me; is_banned is the answer of User::is_banned() when the
\* caller has asked the returned user.
NoUser == [banned |-> NoDate]

NoAnswer == [asked |-> FALSE, at |-> 0, value |-> FALSE]

Res(kind, message) ==
    [kind |-> kind, message |-> message, token |-> NoToken, user |-> NoUser,
     is_banned |-> NoAnswer]

\* User::is_banned: self.banned.is_none() || self.banned.unwrap() > UTC::now()
is_banned(user, t) == ~user.banned.some \/ user.banned.at > t

\* User::from_dto: banned: dto.banned
user_from_dto(body) == [banned |-> body.banned]

NoResult == Res("", <<>>)

\* response.read_to_string(&mut response_str)
Readable(body) == body.syntax # "ioerror"

\* json::decode::<T>(&response_str)
Decodes(body, shape) == body.syntax = "json" /\ body.shape = shape

\* u64::from_str(&res.message)
ParsesAsU64(message) ==
    Len(message) > 0 /\ \A i \in 1..Len(message) : message[i] \in Digits

----------------------------------------------------------------------------
(* The request envelope: what send_request makes of a received response.   *)

\* match status { Forbidden => .., Accepted => .., BadRequest => .., NotFound => .., _ => .. }
StatusErrorNoMessage(status, message) ==
    CASE status = 403 -> Res("Forbidden", message)
      [] status = 202 -> Res("ClientError", message)
      [] status = 400 -> Res("BadRequest", message)
      [] status = 404 -> Res("NotFound", message)
      [] OTHER -> Res("ServerError", <<>>)

StatusError(status, message) ==
    CASE status = 403 -> Res("Forbidden", message)
      [] status = 202 -> Res("ClientError", message)
      [] status = 400 -> Res("BadRequest", message)
      [] status = 404 -> Res("NotFound", message)
      [] OTHER -> Res("ServerError", message)

\* match response.status { StatusCode::Ok => Ok(response), status => .. }
ReturnsResponseOrAccepted(status) == status \in {200, 202}

ReturnsResponse(status) == status = 200

\* send_request classifying by status when the body does not decode
ClassifyWithoutBody(r) ==
    IF ReturnsResponse(r.status) THEN Res("Response", <<>>)
    ELSE IF ~Readable(r.body) THEN Res("IO", <<>>)
    ELSE IF ~Decodes(r.body, "ResponseDTO") THEN StatusError(r.status, <<>>)
    ELSE StatusError(r.status, r.body.message)

\* Client::send_request after the transport has answered.
Classify(r) ==
    IF ReturnsResponse(r.status) THEN Res("Response", <<>>)
    ELSE IF ~Readable(r.body) THEN Res("IO", <<>>)
    ELSE IF ~Decodes(r.body, "ResponseDTO") THEN Res("JSONDecodeError", <<>>)
    ELSE StatusError(r.status, r.body.message)

\* while !bad_status { ..send..; if !response_main.is_err() { bad_status = true; } }
\* in Client; a single resend in ClientV1.
SendsAgainInverted(client, failed) == client = "Client" /\ ~failed

SendsAgain(client, failed) == client = "Client" /\ failed

----------------------------------------------------------------------------
(* What each operation makes of the response send_request returned.        *)

\* dto.scopes.split(',')
RECURSIVE Split(_)
Split(s) ==
    IF \A i \in 1..Len(s) : s[i] # ","
    THEN <<s>>
    ELSE LET i == CHOOSE k \in 1..Len(s) :
                      s[k] = "," /\ \A j \in 1..(k - 1) : s[j] # ","
         IN <<SubSeq(s, 1, i - 1)>> \o Split(SubSeq(s, i + 1, Len(s)))

\* s.rfind(pattern): the last position the pattern starts at, 0 for None.
rfind(s, pattern) ==
    LET starts == {i \in 1..Len(s) :
                      /\ i + Len(pattern) - 1 <= Len(s)
                      /\ SubSeq(s, i, i + Len(pattern) - 1) = pattern}
    IN IF starts = {} THEN 0
       ELSE CHOOSE i \in starts : \A j \in starts : j <= i

DigitValue(c) ==
    CASE c = "0" -> 0 [] c = "1" -> 1 [] c = "2" -> 2 [] c = "3" -> 3
      [] c = "4" -> 4 [] c = "5" -> 5 [] c = "6" -> 6 [] c = "7" -> 7
      [] c = "8" -> 8 [] OTHER -> 9

\* The value of a text that parses as u64.
RECURSIVE DecimalValue(_)
DecimalValue(s) ==
    IF Len(s) = 0 THEN 0
    ELSE 10 * DecimalValue(SubSeq(s, 1, Len(s) - 1)) + DigitValue(s[Len(s)])

\* Scope::from_str (src/oauth.rs): [ok, scope]
from_str(s) ==
    CASE s = TextAdmin -> [ok |-> TRUE, scope |-> Admin]
      [] s = TextPublic -> [ok |-> TRUE, scope |-> Public]
      [] s = TextDeveloper -> [ok |-> TRUE, scope |-> Developer]
      [] OTHER ->
            LET i == rfind(s, TextUserColon) IN
            IF i = 0 THEN [ok |-> FALSE, scope |-> Admin]
            ELSE LET rest == SubSeq(s, i, Len(s)) IN
                 IF ParsesAsU64(rest)
                 THEN [ok |-> TRUE, scope |-> User(DecimalValue(rest))]
                 ELSE [ok |-> FALSE, scope |-> Admin]

\* AccessToken::from_dto (src/oauth.rs), of the ClientV1 operations
from_dto_split(body, t) ==
    LET pieces == Split(body.scopes_text)
        parsed == [i \in 1..Len(pieces) |-> from_str(pieces[i])]
    IN IF \E i \in 1..Len(parsed) : ~parsed[i].ok THEN Res("FromDTOError", <<>>)
       ELSE IF Len(parsed) = 0 THEN Res("FromDTOError", <<>>)
       ELSE [Res("Ok", <<>>) EXCEPT
                !.token = [app_id |-> "app",
                           scopes |-> [i \in 1..Len(parsed) |-> parsed[i].scope],
                           access_token |-> "bearer", expiration |-> t + 1]]

\* from_dto without the check of scopes.len()
FromDtoKeepsEmpty(body, t) ==
    IF body.token_type # "Bearer" THEN Res("FromDTOError", <<>>)
    ELSE IF ~body.scopes_valid THEN Res("Panic", <<>>)
    ELSE [Res("Ok", <<>>) EXCEPT
             !.token = [app_id |-> "app", scopes |-> body.scopes,
                        access_token |-> "bearer", expiration |-> t + 1]]

\* AccessToken::from_dto (src/v1/oauth.rs)
from_dto(body, t) ==
    IF body.token_type # "Bearer" THEN Res("FromDTOError", <<>>)
    ELSE IF ~body.scopes_valid THEN Res("Panic", <<>>)
    ELSE IF Len(body.scopes) = 0 THEN Res("FromDTOError", <<>>)
    ELSE [Res("Ok", <<>>) EXCEPT
             !.token = [app_id |-> "app", scopes |-> body.scopes,
                        access_token |-> "bearer", expiration |-> t + 1]]

\* let _ = try!(response.read_to_string(..)); try!(json::decode(..)); then
\* the conversion named by how: "token", "token_split", "user", "try", "unwrap",
\* "filter", "none", "message".
ReadAndDecode(body, shape, how, t) ==
    IF ~Readable(body) THEN Res("IO", <<>>)
    ELSE IF ~Decodes(body, shape) THEN Res("JSONDecodeError", <<>>)
    ELSE CASE how = "token" -> from_dto(body, t)
           [] how = "token_split" -> from_dto_split(body, t)
           [] how = "user" -> IF body.convertible
                              THEN [Res("Ok", <<>>) EXCEPT !.user = user_from_dto(body)]
                              ELSE Res("FromDTOError", <<>>)
           [] how = "try" -> IF body.convertible THEN Res("Ok", <<>>)
                             ELSE Res("FromDTOError", <<>>)
           [] how = "unwrap" -> IF body.convertible THEN Res("Ok", <<>>)
                                ELSE Res("Panic", <<>>)
           [] how = "message" -> Res("Ok", body.message)
           [] OTHER -> Res("Ok", <<>>)

\* StatusCode::Accepted => match json::decode::<ResponseDTO>(..) {
\*     Ok(r) => Err(Error::ClientError(r)), Err(e) => Err(e.into()) }
AcceptedArm(body) ==
    IF ~Readable(body) THEN Res("IO", <<>>)
    ELSE IF ~Decodes(body, "ResponseDTO") THEN Res("JSONDecodeError", <<>>)
    ELSE Res("ClientError", body.message)

\* match response.status { Ok => .., Accepted => .., Unauthorized => .., _ => .. }
StatusArms(r, okResult, hasAccepted, hasUnauthorized) ==
    CASE r.status = 200 -> okResult
      [] r.status = 202 /\ hasAccepted -> AcceptedArm(r.body)
      [] r.status = 401 /\ hasUnauthorized -> Res("Unauthorized", <<>>)
      [] OTHER -> Res("ServerError", <<>>)

\* src/v1/oauth.rs: token, create_client
OAuthHandle(op, r, t) ==
    StatusArms(r,
        IF op = "token"
        THEN ReadAndDecode(r.body, "AccessTokenDTO", "token", t)
        ELSE ReadAndDecode(r.body, "ClientInfoDTO", "try", t),
        FALSE, TRUE)

\* src/v1/public.rs
PublicHandle(op, r, t) ==
    StatusArms(r,
        IF op = "login"
        THEN ReadAndDecode(r.body, "AccessTokenDTO", "token", t)
        ELSE Res("Ok", <<>>),
        op # "resend_email_confirmation",
        op \notin {"confirm_email", "reset_password"})

\* src/v1/user.rs
UserHandle(op, r, t) ==
    StatusArms(r,
        CASE op \in {"get_user", "get_me"} ->
                ReadAndDecode(r.body, "UserDTO", "user", t)
          [] op = "get_all_users" ->
                ReadAndDecode(r.body, "Vec<UserDTO>", "filter", t)
          [] op = "get_authenticator_qrcode" ->
                ReadAndDecode(r.body, "ResponseDTO", "message", t)
          [] OTHER -> Res("Ok", <<>>),
        op \in {"get_user", "get_me", "get_all_users", "get_authenticator_qrcode",
                "authenticate"},
        TRUE)

\* src/v1/friends.rs
FriendsHandle(op, r, t) ==
    CASE op = "send_friend_request" ->
            LET res == ReadAndDecode(r.body, "ResponseDTO", "message", t) IN
            IF res.kind # "Ok" THEN res
            ELSE IF r.status \in {200, 202} THEN res
            ELSE Res("Forbidden", res.message)
      [] op \in {"confirm_friend_request", "reject_friend_request"} ->
            LET res == ReadAndDecode(r.body, "ResponseDTO", "message", t) IN
            IF res.kind # "Ok" THEN res
            ELSE IF r.status = 200 THEN res
            ELSE Res("Forbidden", res.message)
      [] op = "get_friend_requests" ->
            ReadAndDecode(r.body, "Vec<PendingFriendRequestDTO>", "unwrap", t)
      [] op = "get_friends" ->
            ReadAndDecode(r.body, "Vec<ProfileDTO>", "unwrap", t)
      [] OTHER -> Res("Ok", <<>>)

\* src/v1/transaction.rs
TransactionHandle(op, r, t) ==
    CASE op = "get_transaction" ->
            ReadAndDecode(r.body, "TransactionDTO", "try", t)
      [] op = "new_transaction" ->
            ReadAndDecode(r.body, "PendingTransactionDTO", "none", t)
      [] op = "get_all_transactions" ->
            ReadAndDecode(r.body, "Vec<TransactionDTO>", "unwrap", t)
      [] op = "get_user_id_from_wallet_address" ->
            LET res == ReadAndDecode(r.body, "ResponseDTO", "message", t) IN
            IF res.kind # "Ok" THEN res
            ELSE IF ParsesAsU64(res.message) THEN res
            ELSE Res("BadRequest", <<"could not parse result to correct type">>)
      [] OTHER -> Res("Ok", <<>>)

\* src/lib.rs: token, login, create_client, generate_transaction, delete_user
ClientV1Handle(op, r, t) ==
    StatusArms(r,
        CASE op \in {"token", "login"} ->
                ReadAndDecode(r.body, "AccessTokenDTO", "token_split", t)
          [] op = "create_client" ->
                ReadAndDecode(r.body, "ClientInfoDTO", "try", t)
          [] OTHER -> Res("Ok", <<>>),
        op \in {"login", "generate_transaction"},
        TRUE)

Handle(client, op, r, t) ==
    IF client = "ClientV1" THEN ClientV1Handle(op, r, t)
    ELSE CASE op \in OAuthOps -> OAuthHandle(op, r, t)
           [] op \in PublicOps -> PublicHandle(op, r, t)
           [] op \in UserOps -> UserHandle(op, r, t)
           [] op \in FriendsOps -> FriendsHandle(op, r, t)
           [] OTHER -> TransactionHandle(op, r, t)

\* The result of the call once the transport has answered with r: Client
\* classifies the response in send_request and the operation's `?`/try!
\* returns its error; ClientV1 hands every response to the operation.
Outcome(client, op, r, t) ==
    IF client = "ClientV1" THEN Handle(client, op, r, t)
    ELSE LET c == Classify(r) IN
         IF c.kind = "Response" THEN Handle(client, op, r, t) ELSE c

\* The message of the error a failed local check returns
\* (src/v1/friends.rs, src/v1/transaction.rs).
LocalErrorMessage(op) ==
    CASE op \in {"send_friend_request", "confirm_friend_request",
                 "authenticate_transaction", "get_user_id_from_wallet_address"} ->
            <<"the token must be an unexpired user token">>
      [] op \in {"get_friend_requests", "get_friends", "reject_friend_request",
                 "unfriend"} ->
            <<"the token must be an unexpired user or admin token, and in the case of an user token, the ID in the token must be the same as the given ID">>
      [] op = "get_transaction" ->
            <<"the token must be an unexpired admin or user token">>
      [] op = "new_transaction" ->
            <<"the token must be an unexpired user  token">>
      [] op = "get_all_transactions" ->
            <<"the token must be an unexpired admin token">>
      [] OTHER -> <<>>

\* The error of a failed local check: Err(Error::Forbidden(..)) in friends.rs
\* and transaction.rs, Err(Error::Unauthorized) elsewhere.
LocalError(client, op) ==
    IF client = "Client" /\ op \in FriendsOps \cup TransactionOps
    THEN Res("Forbidden", LocalErrorMessage(op))
    ELSE Res("Unauthorized", <<>>)

----------------------------------------------------------------------------
(* The request an operation builds.                                        *)

Method(op) ==
    CASE op \in {"get_user", "get_me", "get_all_users", "get_authenticator_qrcode",
                 "resend_email_confirmation", "get_friend_requests", "get_friends",
                 "get_transaction", "get_all_transactions"} -> "Get"
      [] op \in {"delete_user", "unfriend"} -> "Delete"
      [] OTHER -> "Post"

\* access_token.get_token(): Bearer { token: self.access_token.clone() }
get_token(token) ==
    [scheme |-> "Bearer", username |-> "", password |-> <<>>,
     token |-> token.access_token]

\* Authorization sending the application id of the token as the bearer string
AuthorizationAppId(op, token, app_id, secret) ==
    IF op = "token"
    THEN [scheme |-> "Basic", username |-> app_id, password |-> secret, token |-> ""]
    ELSE [scheme |-> "Bearer", username |-> "", password |-> <<>>,
          token |-> token.app_id]

\* headers.set(Authorization(Basic {..})) in token,
\* headers.set(Authorization(access_token.get_token())) elsewhere.
Authorization(op, token, app_id, secret) ==
    IF op = "token"
    THEN [scheme |-> "Basic", username |-> app_id, password |-> secret, token |-> ""]
    ELSE get_token(token)

\* origin_id: access_token.scopes().fold(0, |acc, s| match s {
\*     &Scope::User(id) => id, _ => acc })
RECURSIVE fold_user_id(_, _, _)
fold_user_id(scopes, i, acc) ==
    IF i > Len(scopes) THEN acc
    ELSE fold_user_id(scopes, i + 1,
                      IF scopes[i].tag = "User" THEN scopes[i].id ELSE acc)

NoBody == [dto |-> "", origin |-> 0, destination |-> 0, present |-> {}]

\* old_password: match password { Some(pass) => Some(..), None => None }
\* written as Some in every case
UpdateUserFieldsWithPassword(op, password) ==
    {"old_password"} \cup
    (CASE op = "set_username" -> {"new_username"}
       [] op = "set_phone" -> {"new_phone"}
       [] op = "set_birthday" -> {"new_birthday"}
       [] op = "set_name" -> {"new_first", "new_last"}
       [] op = "set_email" -> {"new_email"}
       [] op = "set_image" -> {"new_image"}
       [] op = "set_address" -> {"new_address"}
       [] OTHER -> {"new_password"})

\* The fields of the UpdateUserDTO that are Some(..); the others are None.
\* password tells whether the caller passed Some(password).
UpdateUserFields(op, password) ==
    (IF password \/ op = "set_password" THEN {"old_password"} ELSE {}) \cup
    (CASE op = "set_username" -> {"new_username"}
       [] op = "set_phone" -> {"new_phone"}
       [] op = "set_birthday" -> {"new_birthday"}
       [] op = "set_name" -> {"new_first", "new_last"}
       [] op = "set_email" -> {"new_email"}
       [] op = "set_image" -> {"new_image"}
       [] op = "set_address" -> {"new_address"}
       [] OTHER -> {"new_password"})

\* A body whose origin and destination are both the caller's argument
RequestBodyFromArgument(c) ==
    CASE c.op = "send_friend_request" ->
            [dto |-> "FriendRequestDTO", origin |-> c.user_id,
             destination |-> c.user_id, present |-> {}]
      [] c.op = "confirm_friend_request" ->
            [dto |-> "ConfirmFriendRequestDTO", origin |-> c.user_id,
             destination |-> c.user_id, present |-> {}]
      [] c.op = "new_transaction" ->
            [dto |-> "GenerateTransactionDTO", origin |-> c.user_id,
             destination |-> c.user_id, present |-> {}]
      [] c.op = "generate_transaction" ->
            [dto |-> "GenerateTransaction", origin |-> c.user_id,
             destination |-> c.user_id, present |-> {}]
      [] c.op \in SetterOps \cup {"set_password"} ->
            [dto |-> "UpdateUserDTO", origin |-> 0, destination |-> 0,
             present |-> UpdateUserFields(c.op, c.password)]
      [] OTHER -> NoBody

\* The DTO of the request of the call c: the fields that name users (the one
\* taken from the access token and the one the caller passes) and, for an
\* UpdateUserDTO, the fields that are present.
RequestBody(c) ==
    CASE c.op = "send_friend_request" ->
            [dto |-> "FriendRequestDTO", origin |-> get_user_id(c.token).id,
             destination |-> c.user_id, present |-> {}]
      [] c.op = "confirm_friend_request" ->
            [dto |-> "ConfirmFriendRequestDTO", origin |-> c.user_id,
             destination |-> get_user_id(c.token).id, present |-> {}]
      [] c.op = "new_transaction" ->
            [dto |-> "GenerateTransactionDTO", origin |-> get_user_id(c.token).id,
             destination |-> c.user_id, present |-> {}]
      [] c.op = "generate_transaction" ->
            [dto |-> "GenerateTransaction",
             origin |-> fold_user_id(c.token.scopes, 1, 0),
             destination |-> c.user_id, present |-> {}]
      [] c.op \in SetterOps \cup {"set_password"} ->
            [dto |-> "UpdateUserDTO", origin |-> 0, destination |-> 0,
             present |-> UpdateUserFields(c.op, c.password)]
      [] OTHER -> NoBody

\* The user id an operation writes into the URL: [some, id]
NoId == [some |-> FALSE, id |-> 0]

\* format!("{}user/{}", self.url, user_id): the user_id argument, or in
\* get_me and set_password the id the loop over the scopes ends with.
UrlId(c) ==
    CASE c.op \in TargetOps -> [some |-> TRUE, id |-> c.user_id]
      [] c.op \in {"get_me", "set_password"} ->
            [some |-> TRUE, id |-> fold_user_id(c.token.scopes, 1, 0)]
      [] OTHER -> NoId

NoRequest == [method |-> "", op |-> "", url_id |-> NoId,
              auth |-> [scheme |-> "", username |-> "", password |-> <<>>, token |-> ""],
              body |-> NoBody]

\* The request of the call c.
Request(c) ==
    [method |-> Method(c.op), op |-> c.op, url_id |-> UrlId(c),
     auth |-> Authorization(c.op, c.token, c.app_id, c.secret),
     body |-> RequestBody(c)]

\* self.client.request(method, url).headers(headers).body(b): the request
\* the transport is given.
Built(method, op, url_id, headers, body) ==
    [method |-> method, op |-> op, url_id |-> url_id, auth |-> headers,
     body |-> body]

\* The request of the first send.
Sent(req) == Built(req.method, req.op, req.url_id, req.auth, req.body)

\* A resend that leaves out `if let Some(ref b) = body { .. }`
ResentWithoutBody(req) == Built(req.method, req.op, req.url_id, req.auth, NoBody)

\* The request of a resend, built again from method.clone(), url,
\* headers.clone() and body.
Resent(req) == Built(req.method, req.op, req.url_id, req.auth, req.body)

\* What went to the transport in the first and in the latest send of a call.
NoWire == [first |-> NoRequest, last |-> NoRequest]

----------------------------------------------------------------------------
(* The state machine.                                                      *)

NoCall == [client |-> "", op |-> "", token |-> NoToken, app_id |-> "",
           user_id |-> 0, password |-> FALSE, secret |-> <<>>, time |-> 0, expired |-> FALSE,
           passed |-> FALSE]

\* The access tokens a caller holds are built with from_data.
CallerTokens ==
    {from_data("app", scopes, "bearer", expiration) :
        scopes \in ScopeLists, expiration \in Expirations}

Min(a, b) == IF a < b THEN a ELSE b

Init ==
    /\ now \in Times
    /\ pc = "idle"
    /\ call = NoCall
    /\ request = NoRequest
    /\ wire = NoWire
    /\ sends = 0
    /\ log = <<>>
    /\ flip = FALSE
    /\ resp = NoResponse
    /\ result = NoResult

\* The wall clock (UTC::now()) advances.
Tick ==
    /\ now < MaxTime
    /\ now' = now + 1
    /\ UNCHANGED <<pc, call, request, wire, sends, log, flip, resp, result>>

\* The passing condition of the local part of an operation: the secret's
\* length in token, the scopes and the expiry of the access token elsewhere.
Passes(client, op, token, user_id, secret, t) ==
    IF op = "token"
    THEN SecretAccepted(secret)
    ELSE LocalCheck(client, op, token, user_id, t)

\* A caller starts an operation: the local check, and the request if it passes.
Call ==
    /\ pc = "idle"
    /\ \E client \in Clients :
       \E op \in OpsOf(client) :
       \E token \in (IF op = "token" THEN {NoToken} ELSE CallerTokens) :
       \E app_id \in (IF op = "token" THEN AppIds ELSE {""}) :
       \E user_id \in (IF op \in UserArgOps THEN UserIds ELSE {0}) :
       \E password \in (IF op \in SetterOps THEN BOOLEAN ELSE {FALSE}) :
       \E secret \in (IF op = "token" THEN Secrets ELSE {<<>>}) :
          LET passed == Passes(client, op, token, user_id, secret, now) IN
          /\ call' = [client |-> client, op |-> op, token |-> token,
                      app_id |-> app_id, user_id |-> user_id,
                      password |-> password, secret |-> secret,
                      time |-> now, expired |-> has_expired(token, now),
                      passed |-> passed]
          /\ IF passed
             THEN /\ pc' = "first"
                  /\ request' = Request(call')
                  /\ result' = NoResult
             ELSE /\ pc' = "done"
                  /\ request' = NoRequest
                  /\ result' = IF op = "token" THEN Res("InvalidSecret", <<>>)
                               ELSE LocalError(client, op)
    /\ wire' = NoWire
    /\ sends' = 0
    /\ log' = <<>>
    /\ flip' = FALSE
    /\ resp' = NoResponse
    /\ UNCHANGED now

\* The outcome of a transport send ("err" or "ok") is appended to the log of
\* the call; the log keeps the first MaxSends outcomes.
Logged(outcome) ==
    log' = IF Len(log) < MaxSends THEN Append(log, outcome) ELSE log

\* An operation that wrote the token it returns into the token it was given
AnsweredInPlace(r) ==
    /\ resp' = r
    /\ result' = Outcome(call.client, call.op, r, now)
    /\ pc' = "done"
    /\ call' = IF result'.kind = "Ok" /\ call.op = "login"
               THEN [call EXCEPT !.token = result'.token]
               ELSE call

\* The transport answers the send with r, and the call returns.  The access
\* token is borrowed (&AccessToken): the caller's token stays as it was.
Answered(r) ==
    /\ resp' = r
    /\ result' = Outcome(call.client, call.op, r, now)
    /\ pc' = "done"
    /\ call' = call

\* A first send that sends again when the status is not 200
FirstSendRetriesOnStatus ==
    /\ pc = "first"
    /\ wire' = [first |-> Sent(request), last |-> Sent(request)]
    /\ sends' = 1
    /\ flip' = ~flip
    /\ \/ /\ Logged("err")
          /\ pc' = "retry"
          /\ UNCHANGED <<call, resp, result>>
       \/ /\ Logged("ok")
          /\ \E status \in Statuses : \E body \in BodiesFor(call.op) :
                IF status = 200
                THEN Answered(Response(status, body))
                ELSE /\ pc' = "retry"
                     /\ UNCHANGED <<call, resp, result>>
    /\ UNCHANGED <<now, request>>

\* send_request: let mut response_main = response.send();
FirstSend ==
    /\ pc = "first"
    /\ wire' = [first |-> Sent(request), last |-> Sent(request)]
    /\ sends' = 1
    /\ flip' = ~flip
    /\ \/ /\ Logged("err")
          /\ pc' = "retry"
          /\ UNCHANGED <<call, resp, result>>
       \/ /\ Logged("ok")
          /\ \E status \in Statuses : \E body \in BodiesFor(call.op) :
                Answered(Response(status, body))
    /\ UNCHANGED <<now, request>>

\* send_request: the resend after a failed send.  The counter saturates at
\* MaxSends, which then reads "MaxSends or more".
RetrySend ==
    /\ pc = "retry"
    /\ wire' = [wire EXCEPT !.last = Resent(request)]
    /\ sends' = Min(sends + 1, MaxSends)
    /\ flip' = ~flip
    /\ \/ /\ Logged("err")
          /\ IF SendsAgain(call.client, TRUE)
             THEN /\ pc' = "retry"
                  /\ UNCHANGED <<call, resp, result>>
             ELSE /\ pc' = "done"
                  /\ result' = Res("HyperError", <<>>)
                  /\ UNCHANGED <<call, resp>>
       \/ /\ Logged("ok")
          /\ IF SendsAgain(call.client, FALSE)
             THEN /\ pc' = "retry"
                  /\ UNCHANGED <<call, resp, result>>
             ELSE \E status \in Statuses : \E body \in BodiesFor(call.op) :
                     Answered(Response(status, body))
    /\ UNCHANGED <<now, request>>

\* The operation has returned its result to the caller; the client keeps
\* nothing of the call.
Return ==
    /\ pc = "done"
    /\ pc' = "idle"
    /\ call' = NoCall
    /\ request' = NoRequest
    /\ wire' = NoWire
    /\ sends' = 0
    /\ log' = <<>>
    /\ flip' = FALSE
    /\ resp' = NoResponse
    /\ result' = NoResult
    /\ UNCHANGED now

\* The caller asks the user that get_user or get_me returned whether it is
\* banned; the answer is that of the current time.
IsBanned ==
    /\ pc = "done"
    /\ call.op \in {"get_user", "get_me"}
    /\ result.kind = "Ok"
    /\ result' = [result EXCEPT
                    !.is_banned = [asked |-> TRUE, at |-> now,
                                   value |-> is_banned(result.user, now)]]
    /\ result' # result
    /\ UNCHANGED <<now, pc, call, request, wire, sends, log, flip, resp>>

Next == Call \/ FirstSend \/ RetrySend \/ Return \/ Tick \/ IsBanned

Spec == Init /\ [][Next]_vars

\* The running call takes its next step; nothing makes the transport succeed.
FairSpec == Spec /\ WF_vars(FirstSend) /\ WF_vars(RetrySend)

----------------------------------------------------------------------------
(* The claims.                                                             *)

InCall == call.op # ""

LocalErrorKinds == {"Forbidden", "Unauthorized"}

\* C1: in a call of Client::send_request the transport is never invoked more
\* than twice, and when the first send and the resend both fail the call has
\* returned a transport error after exactly two sends.
C1_RetryOnceThenFail ==
    (InCall /\ call.client = "Client") =>
        /\ sends <= 2
        /\ (Len(log) >= 2 /\ log[1] = "err" /\ log[2] = "err") =>
               (pc = "done" /\ result.kind = "HyperError" /\ sends = 2)

\* C2: every call of Client that reaches send_request eventually returns,
\* whatever the transport does.
C2_CallReturns == (pc = "first" /\ call.client = "Client") ~> (pc = "done")

\* C3: when the first send fails and the second succeeds, the call has gone on
\* with the second send's response, is no transport error, and the transport
\* was invoked exactly twice.
C3_RetrySucceeds ==
    (Len(log) >= 2 /\ log[1] = "err" /\ log[2] = "ok") =>
        /\ pc = "done"
        /\ sends = 2
        /\ resp.received
        /\ result.kind # "HyperError"

C3_Witness ==
    /\ pc = "done"
    /\ log = <<"err", "ok">>
    /\ sends = 2
    /\ resp.status = 200
    /\ result.kind = "Ok"

\* The error kind the status table of the specification gives a status.
TableKinds(status) ==
    CASE status = 401 -> {"Unauthorized", "Forbidden"}
      [] status = 400 -> {"BadRequest"}
      [] status = 404 -> {"NotFound"}
      [] status = 202 -> {"ClientError"}
      [] OTHER -> {"ServerError"}

IsMessageBody(body) == body.syntax = "json" /\ body.shape = "ResponseDTO"

ErrorResponse ==
    /\ pc = "done"
    /\ call.client = "Client"
    /\ resp.received
    /\ resp.status # 200
    /\ IsMessageBody(resp.body)

\* C4: a non-200 response whose body is a ResponseDTO gives the error kind of
\* the status table: 401 Unauthorized/Forbidden, 400 BadRequest, 404 NotFound,
\* 202 ClientError, any other status ServerError.
C4_StatusTable == ErrorResponse => result.kind \in TableKinds(resp.status)

\* C5: the error of a non-200 response with body {"message": X} carries
\* exactly X, for every status and every X.
C5_MessageKept ==
    ErrorResponse => (result.kind # "Ok" /\ result.message = resp.body.message)

C5_Witness ==
    /\ ErrorResponse
    /\ resp.status = 500
    /\ resp.body.message = <<"n", "o">>
    /\ result = Res("ServerError", <<"n", "o">>)

\* C6: an operation of Client returns a success value only if its local check
\* passed and the response had status 200.
C6_SuccessOnlyOn200 ==
    (pc = "done" /\ call.client = "Client" /\ result.kind = "Ok") =>
        /\ ScopeCheck(call.client, call.op, call.token, call.user_id)
             \/ call.op = "token"
        /\ sends >= 1
        /\ resp.received
        /\ resp.status = 200

C6_Witness ==
    /\ pc = "done"
    /\ call.client = "Client"
    /\ call.op \in {"send_friend_request", "unfriend", "authenticate_transaction"}
    /\ resp.received
    /\ resp.status = 202
    /\ result.kind \notin {"Ok", ""}

\* C7: when the token's scopes do not satisfy the operation's scope condition,
\* the operation has returned an authorization error without any send.
C7_ScopeFailureIsLocal ==
    (InCall /\ call.op # "token"
       /\ ~ScopeCheck(call.client, call.op, call.token, call.user_id)) =>
        /\ pc = "done"
        /\ sends = 0
        /\ ~resp.received
        /\ result.kind \in LocalErrorKinds

C7_Witness ==
    /\ pc = "done"
    /\ call.op = "get_transaction"
    /\ call.token.scopes = <<Public>>
    /\ call.token.expiration > call.time
    /\ sends = 0
    /\ result.kind = "Forbidden"

\* C8: when the token has expired at the time of the call (its expiration
\* instant lies before the time of the call), the operation has returned an
\* authorization error without any send, whatever the scopes.
C8_ExpiredIsLocal ==
    (InCall /\ call.op # "token" /\ call.token.expiration < call.time) =>
        /\ pc = "done"
        /\ sends = 0
        /\ ~resp.received
        /\ result.kind \in LocalErrorKinds

C8_Witness ==
    /\ pc = "done"
    /\ call.op = "login"
    /\ call.token.scopes = <<Public>>
    /\ call.token.expiration < call.time
    /\ sends = 0
    /\ result.kind = "Unauthorized"

\* C9: for a secret that is not valid base64 or does not decode to exactly
\* 20 bytes, token() has returned InvalidSecret without any send.
C9_InvalidSecretIsLocal ==
    (call.op = "token"
       /\ (~from_base64(call.secret).ok \/ from_base64(call.secret).len # 20)) =>
        /\ pc = "done"
        /\ sends = 0
        /\ ~resp.received
        /\ result.kind = "InvalidSecret"

C9_Witness ==
    /\ pc = "done"
    /\ call.op = "token"
    /\ from_base64(call.secret) = [ok |-> TRUE, len |-> 21]
    /\ sends = 0
    /\ result.kind = "InvalidSecret"

\* C10 as stated: has_expired() is true if and only if the current time is
\* greater than or equal to the expiration instant.
C10_ExpiredIffNotBefore ==
    (InCall /\ call.op # "token") =>
        (call.expired <=> call.time >= call.token.expiration)

\* C10 as amended: has_expired() is true if and only if the current time is
\* strictly greater than the expiration instant; it is false when the two
\* are equal, and true for an expiration one second in the past.
C10_ExpiredIffAfter ==
    (InCall /\ call.op # "token") =>
        (call.expired <=> call.time > call.token.expiration)

C10_Witness ==
    /\ InCall
    /\ call.op # "token"
    /\ call.token.expiration + 1 = call.time
    /\ call.expired

TokenOps == {"token", "login"}

\* The response to the call is a 200 whose body decodes as an AccessTokenDTO.
TokenAnswered ==
    /\ pc = "done"
    /\ call.op \in TokenOps
    /\ resp.received
    /\ resp.status = 200
    /\ resp.body.syntax = "json"
    /\ resp.body.shape = "AccessTokenDTO"

\* The scopes field of the answered DTO holds no scope: an empty JSON array
\* for Client, an empty list of names for ClientV1.
EmptyScopeCollection ==
    IF call.client = "Client"
    THEN resp.body.scopes_valid /\ resp.body.scopes = <<>>
    ELSE resp.body.scopes_text = <<>>

\* C11: when the AccessTokenDTO a token or login call receives has an empty
\* scope collection, the call returns FromDTOError and no token; no token or
\* login call returns a token with zero scopes.
C11_EmptyScopesRejected ==
    /\ (TokenAnswered /\ EmptyScopeCollection) =>
           (result.kind = "FromDTOError" /\ result.token = NoToken)
    /\ (call.op \in TokenOps /\ result.kind = "Ok") =>
           Len(result.token.scopes) > 0

C11_Witness ==
    /\ TokenAnswered
    /\ call.client = "Client"
    /\ resp.body.token_type = "Bearer"
    /\ resp.body.scopes_valid
    /\ resp.body.scopes = <<>>
    /\ result.kind = "FromDTOError"

\* C12: every access token in the program, the one a caller built with
\* from_data and passes to an operation as well as the one from_dto returns
\* from token or login, has at least one scope.
C12_TokensHaveScopes ==
    /\ (InCall /\ call.op # "token") => Len(call.token.scopes) > 0
    /\ (pc = "done" /\ call.op \in TokenOps /\ result.kind = "Ok") =>
           result.token.scopes # <<>>

\* C13: a call that received a response never ends in a panic: a body, a
\* scopes field or an element that fails to decode gives a returned error.
C13_DecodeFailureIsError ==
    (pc = "done" /\ resp.received) => result.kind # "Panic"

\* C14: when Client::send_request receives a status other than 200 with a
\* body that was read but is not the JSON of a ResponseDTO, the call returns
\* the JSON decode error, for every status: not a success, not a
\* status-classified error.
C14_UndecodableErrorBody ==
    (/\ pc = "done"
     /\ call.client = "Client"
     /\ resp.received
     /\ resp.status # 200
     /\ resp.body.syntax # "ioerror"
     /\ ~(resp.body.syntax = "json" /\ resp.body.shape = "ResponseDTO")) =>
        (result.kind = "JSONDecodeError" /\ result.message = <<>>)

C14_Witness ==
    /\ pc = "done"
    /\ call.client = "Client"
    /\ resp.received
    /\ resp.status = 403
    /\ resp.body.syntax = "garbage"
    /\ result.kind = "JSONDecodeError"

\* The token of the call is not expired when the call is made.
Unexpired == call.token.expiration >= call.time

HasAdmin == \E i \in 1..Len(call.token.scopes) : call.token.scopes[i].tag = "Admin"

HasUserScope == \E i \in 1..Len(call.token.scopes) : call.token.scopes[i].tag = "User"

HasUserWithId(id) ==
    \E i \in 1..Len(call.token.scopes) :
        call.token.scopes[i].tag = "User" /\ call.token.scopes[i].id = id

IdFromToken ==
    IF call.op = "confirm_friend_request"
    THEN request.body.destination
    ELSE request.body.origin

\* C16: in send_friend_request, confirm_friend_request and new_transaction
\* with an unexpired token, get_user_id() is none exactly when the scopes
\* hold no User scope (no request is built), and otherwise the request
\* carries the id of the first User scope of the ordered collection.
C16_UserIdIsFirstUserScope ==
    (/\ InCall
     /\ call.client = "Client"
     /\ call.op \in {"send_friend_request", "confirm_friend_request",
                     "new_transaction"}
     /\ Unexpired) =>
        IF HasUserScope
        THEN /\ request # NoRequest
             /\ \E i \in 1..Len(call.token.scopes) :
                   /\ call.token.scopes[i].tag = "User"
                   /\ \A j \in 1..(i - 1) : call.token.scopes[j].tag # "User"
                   /\ IdFromToken = call.token.scopes[i].id
        ELSE request = NoRequest /\ ~call.passed

C16_Witness ==
    /\ pc = "done"
    /\ call.client = "Client"
    /\ call.op = "new_transaction"
    /\ call.token.scopes = <<User(1), User(0)>>
    /\ resp.received
    /\ request.body.origin = 1

AdminOrMatchingUserOps ==
    {"get_user", "get_friends", "get_friend_requests", "set_username", "set_phone",
     "set_birthday", "set_name", "set_email", "set_image", "set_address"}

\* C17: an operation that needs the Admin scope or the User scope of the
\* target user_id builds a request exactly when the token is unexpired and
\* holds Admin or User(user_id); otherwise it returns its local error with no
\* send.
C17_AdminOrMatchingUser ==
    (InCall /\ call.client = "Client" /\ call.op \in AdminOrMatchingUserOps) =>
        /\ (request # NoRequest) <=>
              (Unexpired /\ (HasAdmin \/ HasUserWithId(call.user_id)))
        /\ (request = NoRequest) =>
              (pc = "done" /\ sends = 0 /\ result.kind \in LocalErrorKinds)

C17_Witness ==
    /\ pc = "done"
    /\ call.client = "Client"
    /\ call.op = "get_user"
    /\ call.token.scopes = <<User(0)>>
    /\ call.user_id = 1
    /\ Unexpired
    /\ sends = 0
    /\ result.kind = "Unauthorized"

AdminOnlyOps == {"create_client", "get_all_users", "delete_user",
                 "get_all_transactions"}

\* C18: create_client, get_all_users, delete_user and get_all_transactions
\* build a request only with an unexpired token that holds Admin; with any
\* scopes that lack Admin they return their local error with no send.
C18_AdminOnly ==
    (InCall /\ call.op \in AdminOnlyOps) =>
        /\ (request # NoRequest) => (Unexpired /\ HasAdmin)
        /\ ~HasAdmin =>
              (pc = "done" /\ sends = 0 /\ result.kind \in LocalErrorKinds)

C18_Witness ==
    /\ pc = "done"
    /\ call.client = "Client"
    /\ call.op = "get_all_transactions"
    /\ call.token.scopes = <<User(0), Developer>>
    /\ Unexpired
    /\ sends = 0
    /\ result.kind = "Forbidden"

\* C19: from the start of a call to its return, no step changes the access
\* token the caller passed (application id, scopes, bearer string and
\* expiration); the token login returns is a value of its own, in the result.
C19_TokenNotMutated ==
    [][(pc # "idle" /\ pc' # "idle") => call'.token = call.token]_vars

C19_Witness ==
    /\ pc = "done"
    /\ call.op = "login"
    /\ result.kind = "Ok"
    /\ call.token.scopes = <<Public>>
    /\ result.token.scopes = <<User(0)>>
    /\ result.token # call.token

\* C20: a request is built before any send; the request of token() carries
\* Basic authorization with the application id and the secret of the call,
\* and the request of every other operation carries Bearer authorization
\* with the bearer string of the token passed to it.
C20_AuthorizationHeader ==
    /\ (pc \in {"first", "retry"} \/ sends > 0) => request # NoRequest
    /\ (request # NoRequest) =>
          IF call.op = "token"
          THEN /\ request.auth.scheme = "Basic"
               /\ request.auth.username = call.app_id
               /\ request.auth.password = call.secret
          ELSE /\ request.auth.scheme = "Bearer"
               /\ request.auth.token = call.token.access_token

C20_Witness ==
    /\ pc = "done"
    /\ call.op = "get_me"
    /\ sends > 0
    /\ request.auth.scheme = "Bearer"
    /\ request.auth.token = "bearer"

\* C21: when the caller asks a returned user whether it is banned, the
\* answer is true exactly when a ban expiration is set and lies after the
\* time of the question; for a user with no ban it is false.
C21_BannedIffFutureBan ==
    result.is_banned.asked =>
        (result.is_banned.value <=>
            (result.user.banned.some /\ result.user.banned.at > result.is_banned.at))

\* C22: when the first send of a call returns a response, whatever its
\* status, the call has returned after exactly that one send.
C22_ResponseNotRetried ==
    (Len(log) >= 1 /\ log[1] = "ok") =>
        /\ pc = "done"
        /\ sends = 1
        /\ Len(log) = 1
        /\ resp.received

C22_Witness ==
    /\ pc = "done"
    /\ log = <<"ok">>
    /\ sends = 1
    /\ resp.received
    /\ resp.status = 500

\* C23: after a resend, the request of the latest send has the method, URL,
\* headers and body of the request of the first send of the call.
C23_ResendIdentical ==
    (sends >= 2) =>
        /\ wire.first # NoRequest
        /\ wire.last = wire.first

C23_Witness ==
    /\ pc = "done"
    /\ sends >= 2
    /\ call.op = "set_name"
    /\ wire.first.body.dto = "UpdateUserDTO"
    /\ wire.last.body.present = {"new_first", "new_last"}

UpdateOps == {"set_username", "set_phone", "set_birthday", "set_name", "set_email",
              "set_image", "set_address", "set_password"}

\* The fields of UpdateUserDTO an update operation is named after.
NamedFields(op) ==
    CASE op = "set_username" -> {"new_username"}
      [] op = "set_phone" -> {"new_phone"}
      [] op = "set_birthday" -> {"new_birthday"}
      [] op = "set_name" -> {"new_first", "new_last"}
      [] op = "set_email" -> {"new_email"}
      [] op = "set_image" -> {"new_image"}
      [] op = "set_address" -> {"new_address"}
      [] OTHER -> {"new_password"}

\* C24: the request an update operation sends is an UpdateUserDTO whose
\* present fields are those the operation is named after, and old_password
\* exactly when the caller supplied one (set_password always does); every
\* other field is null.
C24_OnlyNamedFields ==
    (sends >= 1 /\ call.client = "Client" /\ call.op \in UpdateOps) =>
        /\ wire.first.body.dto = "UpdateUserDTO"
        /\ wire.first.body.present \ {"old_password"} = NamedFields(call.op)
        /\ ("old_password" \in wire.first.body.present) <=>
              (call.password \/ call.op = "set_password")

C24_Witness ==
    /\ sends >= 1
    /\ call.client = "Client"
    /\ call.op = "set_email"
    /\ ~call.password
    /\ wire.first.body.present = {"new_email"}

\* C25: reject_friend_request and unfriend build a request whenever the
\* token is unexpired and holds a User scope or the Admin scope.
C25_UserOrAdminMayProceed ==
    (/\ InCall
     /\ call.client = "Client"
     /\ call.op \in {"reject_friend_request", "unfriend"}
     /\ Unexpired
     /\ (HasUserScope \/ HasAdmin)) =>
        (call.passed /\ request # NoRequest)

\* C26: in a request of new_transaction, send_friend_request,
\* confirm_friend_request and generate_transaction, the id taken from the
\* token (origin_id, or destination in confirm_friend_request) is the id of
\* a User scope the token holds, whatever user the caller names.
C26_OriginIsTokenUser ==
    (/\ request # NoRequest
     /\ call.op \in {"new_transaction", "send_friend_request",
                     "confirm_friend_request", "generate_transaction"}) =>
        HasUserWithId(IdFromToken)

C26_Witness ==
    /\ sends >= 1
    /\ call.op = "send_friend_request"
    /\ call.token.scopes = <<User(1)>>
    /\ call.user_id = 0
    /\ request.body.origin = 1
    /\ request.body.destination = 0

\* C27: get_authenticator_qrcode and authenticate build a request only when
\* the token is unexpired and holds the User scope of the very user_id.
C27_AuthenticatorNeedsMatchingUser ==
    (/\ InCall
     /\ call.client = "Client"
     /\ call.op \in {"get_authenticator_qrcode", "authenticate"}
     /\ request # NoRequest) =>
        (Unexpired /\ HasUserWithId(call.user_id))

\* C28: the user id get_me and set_password write into the URL is the id of
\* the first User scope of the token, the one get_user_id() returns and
\* new_transaction and send_friend_request use as origin_id.
C28_SameOwnUserId ==
    (/\ InCall
     /\ call.client = "Client"
     /\ call.op \in {"get_me", "set_password"}
     /\ request # NoRequest) =>
        \E i \in 1..Len(call.token.scopes) :
           /\ call.token.scopes[i].tag = "User"
           /\ \A j \in 1..(i - 1) : call.token.scopes[j].tag # "User"
           /\ request.url_id = [some |-> TRUE, id |-> call.token.scopes[i].id]

\* C29: when token or login of ClientV1 receives an AccessTokenDTO whose
\* scopes string is "User:1", from_dto succeeds with the scope User(1).
C29_UserScopeParses ==
    (/\ TokenAnswered
     /\ call.client = "ClientV1"
     /\ resp.body.scopes_text = <<"U", "s", "e", "r", ":", "1">>) =>
        (result.kind = "Ok" /\ result.token.scopes = <<User(1)>>)

\* C30: the clock only advances, and a token that has_expired() found
\* expired at the time of a call is found expired at every later time; a
\* call made with a token that was expired at some time up to now returns
\* its local error without building a request.
C30_ExpiryIsMonotonic ==
    /\ []((InCall /\ call.op # "token" /\ call.expired) =>
            (now >= call.time /\ has_expired(call.token, now)))
    /\ [][(/\ pc = "idle"
            /\ pc' # "idle"
            /\ call'.op # "token"
            /\ \E t \in 0..now : has_expired(call'.token, t)) =>
              (/\ now' >= now
               /\ pc' = "done"
               /\ request' = NoRequest
               /\ result'.kind \in LocalErrorKinds)]_vars

C30_Witness ==
    /\ pc = "done"
    /\ call.op = "new_transaction"
    /\ call.token.scopes = <<User(0)>>
    /\ call.expired
    /\ now > call.time
    /\ call.token.expiration < call.time
    /\ result.kind = "Forbidden"

====
